---------------------------- MODULE Spec2Model ----------------------------
(***************************************************************************)
(* Model of the stream combinators of SpongeData-cz/stream:                *)
(*   multiplexer          (fan-out,  src/unnamed/part_000)                 *)
(*   activeMerger         (fan-in by round-robin polling, src/merger.go)   *)
(*   channeledLazyMerger  (fan-in by forwarding tasks,    src/merger.go)   *)
(* Each combinator is a state machine of its own over its own variables;   *)
(* SpecMux, SpecActive and SpecLazy are their specifications.              *)
(***************************************************************************)
EXTENDS Integers, Sequences, FiniteSets, TLC

\* ------------------------------------------------------------------ bounds
MuxBranches == 2
MaxLen == 2
MaxCapacity == 1
NumValues == 2
MaxSources == 3
MaxItems == 2
MaxCloses == 2
SourceCapacity == 1
MaxWork == 3
RRK == 2

Values == 1..NumValues
Branches == 1..MuxBranches
Sources == 1..MaxSources
AmTasks == {"cons", "close"}
\* The tasks of a lazy merger run: merge(s) for a source s, and the Close caller.
CloseTask == 0
LzTasks == Sources \cup {CloseTask}

SeqsUpTo(S, n) == UNION {[1..k -> S] : k \in 0..n}

IsPrefix(s, t) == Len(s) <= Len(t) /\ SubSeq(t, 1, Len(s)) = s

\* What a source of n items yields, in order: its items are numbered from 1.
ItemsOf(n) == [k \in 1..n |-> k]

\* ---------------------------------------------------------------- variables
VARIABLES
  \* multiplexer
  muxInput,      \* the values the upstream producer yields, in order
  muxEnd,        \* how the upstream ends after them: "eos" or "err"
  muxCapacity,   \* capacity of every output channel
  muxSource,     \* DefaultConsumer: TRUE once a source is attached
  muxSetErr,     \* TRUE once a SetSource call has failed
  muxPos,        \* number of values pulled from the upstream so far
  muxPc,         \* pipeData: "idle", "consume", "write", "close", "done"
  muxVal,        \* pipeData: the value being broadcast
  muxIdx,        \* pipeData: the output being written / closed
  outputs,       \* outputs[i] = [buf |-> Seq, closed |-> BOOLEAN]
  rdGot,         \* rdGot[i]: the values branch i's reader has received
  rdEos,         \* rdEos[i]: branch i's reader has seen end-of-stream
  \* what runs: "mux", "active" or "lazy"
  component,
  \* the caller of a merger and the sources it attaches
  srcLen,        \* srcLen[s]: number of items source s yields before it ends
  srcPos,        \* srcPos[s]: number of items of s pulled (lazy) / handed on (active) so far
  srcErr,        \* srcErr[s]: the Get of s has returned an error
  setPc,         \* position of the task calling SetSource
  setIdx,        \* number of SetSource calls made so far
  setBudget,     \* work left to hand to the merger: SetSource calls plus the items of their sources
  setRes,        \* setRes[s]: "none", "ok" (nil) or "err" (already closed)
  setLate,       \* setLate[s]: SetSource(s) was called with the merger closed
  closeCalls,    \* number of explicit Close calls made so far
  consRes,       \* result of the consumer's last Get: "none", "value", "eos", "starve"
  consGot,       \* consGot[s]: the items of s the consumer's Gets returned, in order
  consLate,      \* the Get in progress (or the last one) began with the merger closed
  consLog,       \* the sources the latest Gets read, in order, while every poll found a value
  \* activeMerger
  srcKind,       \* srcKind[s]: "none", "chan" (a ChanneledProducer) or "wrap" (a plain Producer)
  srcPc,         \* srcPc[s]: position of the task pushing s into its channel
  amAutoclose,   \* the autoclose flag
  amClosed,      \* DefaultClosable.closed
  amArr,         \* backing arrays of ego.sources, by capacity
  amCap,         \* capacity of the current backing array of ego.sources
  amLen,         \* len(ego.sources)
  amNext,        \* nextToReadFrom
  amCh,          \* amCh[s] = [buf |-> Seq, closed |-> BOOLEAN]: the channel polled for s
  amPc,          \* amPc[t]: position of task t ("cons": the consumer, "close": the Close caller)
  amArg,         \* amArg[t]: the source t is detaching (argument of unsetSource)
  clArr,         \* the backing array Close's range statement iterates
  clLen,         \* the length Close's range statement iterates
  clIdx,         \* Close's range index
  clSnap,        \* the sources attached when Close was called
  \* channeledLazyMerger
  lzAutoclose,   \* the autoclose flag
  lzCapacity,    \* capacity of the merger's channel
  lzClosed,      \* the channel is closed and ChanneledInput reports Closed()
  lzBuf,         \* the values buffered in the channel, each <<source, item>>
  lzSources,     \* ego.sources
  lzOverflow,    \* ego.overflowBuffer
  lzCloses,      \* number of times ego.ChanneledInput.Close() has been executed
  lzFault,       \* a panic nothing recovered has ended the program
  lzPc,          \* lzPc[t]: position of task t (merge(s) for a source s, the Close caller)
  lzArg,         \* lzArg[t]: the source t is detaching (argument of unsetSource)
  lzDepth,       \* lzDepth[t]: Close calls of t waiting in their loop for unsetSource to return
  lzEos,         \* some Get has returned end-of-stream
  lzInFlight     \* the values tasks were writing when Close was first called

muxVars == <<muxInput, muxEnd, muxCapacity, muxSource, muxSetErr, muxPos,
             muxPc, muxVal, muxIdx, outputs, rdGot, rdEos>>

srcVars == <<srcLen, srcPos, srcErr>>
setVars == <<setPc, setIdx, setBudget, setRes, setLate>>
consVars == <<consRes, consGot, consLate, consLog>>
callerVars == <<srcVars, setVars, closeCalls, consVars>>

regVars == <<amArr, amCap, amLen>>
clVars == <<clArr, clLen, clIdx, clSnap>>
amVars == <<srcKind, srcPc, amAutoclose, amClosed, regVars, amNext, amCh,
            amPc, amArg, clVars>>

lzVars == <<lzAutoclose, lzCapacity, lzClosed, lzBuf, lzSources, lzOverflow,
            lzCloses, lzFault, lzPc, lzArg, lzDepth, lzEos, lzInFlight>>

vars == <<component, muxVars, callerVars, amVars, lzVars>>

\* ================================================================ multiplexer

\* NewMultiplexer(capacity, branches): one open, empty channel per branch.
NewMultiplexer ==
  /\ muxInput \in SeqsUpTo(Values, MaxLen)
  /\ muxEnd \in {"eos", "err"}
  /\ muxCapacity \in 0..MaxCapacity
  /\ muxSource = FALSE
  /\ muxSetErr = FALSE
  /\ muxPos = 0
  /\ muxPc = "idle"
  /\ muxVal = 0
  /\ muxIdx = 0
  /\ outputs = [i \in Branches |-> [buf |-> <<>>, closed |-> FALSE]]
  /\ rdGot = [i \in Branches |-> <<>>]
  /\ rdEos = [i \in Branches |-> FALSE]

\* multiplexer.SetSource: DefaultConsumer.SetSource fails when a source is
\* already attached; otherwise the broadcast task is started.
MuxSetSource ==
  /\ IF muxSource
       THEN /\ muxSetErr' = TRUE
            /\ UNCHANGED <<muxSource, muxPc>>
       ELSE /\ muxSource' = TRUE
            /\ muxPc' = "consume"
            /\ UNCHANGED muxSetErr
  /\ UNCHANGED <<muxInput, muxEnd, muxCapacity, muxPos, muxVal, muxIdx,
                 outputs, rdGot, rdEos>>

\* The deferred closes with the last output's left out.
FirstDeferredButLast == MuxBranches - 1

\* The output the deferred closes start with: defers run last-in first-out.
FirstDeferred == MuxBranches

\* pipeData, `value, valid, err := ego.Consume()`: the next upstream value, or
\* the end (end-of-stream or error), on which the function returns and the
\* deferred closes run.
PipeConsume ==
  /\ muxPc = "consume"
  /\ IF muxPos < Len(muxInput)
       THEN /\ muxVal' = muxInput[muxPos + 1]
            /\ muxPos' = muxPos + 1
            /\ muxPc' = "write"
            /\ muxIdx' = 1
       ELSE /\ muxPc' = "close"
            /\ muxIdx' = FirstDeferred
            /\ UNCHANGED <<muxVal, muxPos>>
  /\ UNCHANGED <<muxInput, muxEnd, muxCapacity, muxSource, muxSetErr,
                 outputs, rdGot, rdEos>>

\* pipeData going back to Consume after the first output it writes.
AfterFirstWrite ==
  /\ muxIdx' = 0
  /\ muxPc' = "consume"

\* Position of pipeData after output muxIdx has been written.
AfterWrite ==
  IF muxIdx < MuxBranches
    THEN /\ muxIdx' = muxIdx + 1
         /\ muxPc' = "write"
    ELSE /\ muxIdx' = 0
         /\ muxPc' = "consume"

\* pipeData, `output.Write(value)` on a buffered channel: blocks while full.
PipeWriteBuffered ==
  /\ muxPc = "write"
  /\ muxCapacity > 0
  /\ ~outputs[muxIdx].closed
  /\ Len(outputs[muxIdx].buf) < muxCapacity
  /\ outputs' = [outputs EXCEPT ![muxIdx].buf = Append(@, muxVal)]
  /\ AfterWrite
  /\ UNCHANGED <<muxInput, muxEnd, muxCapacity, muxSource, muxSetErr, muxPos,
                 muxVal, rdGot, rdEos>>

\* pipeData, `output.Write(value)` on an unbuffered channel: the write
\* completes in the step in which the branch's reader receives it.
PipeWriteHandoff ==
  /\ muxPc = "write"
  /\ muxCapacity = 0
  /\ ~outputs[muxIdx].closed
  /\ ~rdEos[muxIdx]
  /\ rdGot' = [rdGot EXCEPT ![muxIdx] = Append(@, muxVal)]
  /\ AfterWrite
  /\ UNCHANGED <<muxInput, muxEnd, muxCapacity, muxSource, muxSetErr, muxPos,
                 muxVal, outputs, rdEos>>

\* pipeData, the deferred `output.Close()` calls, one output per step.
PipeClose ==
  /\ muxPc = "close"
  /\ outputs' = [outputs EXCEPT ![muxIdx].closed = TRUE]
  /\ IF muxIdx > 1
       THEN /\ muxIdx' = muxIdx - 1
            /\ UNCHANGED muxPc
       ELSE /\ muxIdx' = 0
            /\ muxPc' = "done"
  /\ UNCHANGED <<muxInput, muxEnd, muxCapacity, muxSource, muxSetErr, muxPos,
                 muxVal, rdGot, rdEos>>

\* Out(i).Get() by branch i's reader: a buffered value, or end-of-stream once
\* the channel is closed and drained; blocks otherwise.
ReaderGet(i) ==
  /\ ~rdEos[i]
  /\ IF outputs[i].buf # <<>>
       THEN /\ rdGot' = [rdGot EXCEPT ![i] = Append(@, Head(outputs[i].buf))]
            /\ outputs' = [outputs EXCEPT ![i].buf = Tail(@)]
            /\ UNCHANGED rdEos
       ELSE /\ outputs[i].closed
            /\ rdEos' = [rdEos EXCEPT ![i] = TRUE]
            /\ UNCHANGED <<rdGot, outputs>>
  /\ UNCHANGED <<muxInput, muxEnd, muxCapacity, muxSource, muxSetErr, muxPos,
                 muxPc, muxVal, muxIdx>>

\* ============================================================== the sources

\* `NewChanneledInput[T](0)`: the channel SetSource makes for a plain producer.
WrapCapacity == 0

\* Capacity of the channel the merger polls for source s.
ChanCapOf(s) == IF srcKind[s] = "chan" THEN SourceCapacity ELSE WrapCapacity

\* Where the pushing task is once item number n of s has been handed on: the
\* goroutine of SetSource loops to its Closed() test; the writer of a
\* channeled source writes its next item, or closes the channel after the last.
AfterSend(s, n) ==
  IF srcKind[s] = "wrap" THEN "check"
  ELSE IF n < srcLen[s] THEN "send" ELSE "close"

\* The goroutine of SetSource, `if ego.Closed() { break }` and then
\* `value, valid, err := s.Get()`: the next item, the end, or an error, on
\* which the goroutine returns and leaves the channel open.
WrapCheck(s) ==
  /\ srcPc[s] = "check"
  /\ IF amClosed
       THEN /\ srcPc' = [srcPc EXCEPT ![s] = "done"]
            /\ UNCHANGED srcErr
       ELSE IF srcPos[s] < srcLen[s]
       THEN /\ srcPc' = [srcPc EXCEPT ![s] = "send"]
            /\ UNCHANGED srcErr
       ELSE \/ /\ srcPc' = [srcPc EXCEPT ![s] = "close"]
               /\ UNCHANGED srcErr
            \/ /\ srcPc' = [srcPc EXCEPT ![s] = "done"]
               /\ srcErr' = [srcErr EXCEPT ![s] = TRUE]
  /\ UNCHANGED <<srcLen, srcPos, setVars, closeCalls, consVars, srcKind,
                 amAutoclose, amClosed, regVars, amNext, amCh, amPc, amArg,
                 clVars>>

\* `chp.Close()` when the source is exhausted.
SrcClose(s) ==
  /\ srcPc[s] = "close"
  /\ amCh' = [amCh EXCEPT ![s].closed = TRUE]
  /\ srcPc' = [srcPc EXCEPT ![s] = "done"]
  /\ UNCHANGED <<srcVars, setVars, closeCalls, consVars, srcKind,
                 amAutoclose, amClosed, regVars, amNext, amPc, amArg, clVars>>

\* A write into a buffered channel with room (a channeled source's writer).
SrcSend(s) ==
  /\ srcPc[s] = "send"
  /\ Len(amCh[s].buf) < ChanCapOf(s)
  /\ amCh' = [amCh EXCEPT ![s].buf = Append(@, srcPos[s] + 1)]
  /\ srcPos' = [srcPos EXCEPT ![s] = @ + 1]
  /\ srcPc' = [srcPc EXCEPT ![s] = AfterSend(s, srcPos[s] + 1)]
  /\ UNCHANGED <<srcLen, srcErr, setVars, closeCalls, consVars, srcKind,
                 amAutoclose, amClosed, regVars, amNext, amPc, amArg, clVars>>

\* ============================================================= activeMerger

\* ego.sources as a sequence: the first amLen slots of the backing array.
AmSources == IF amLen = 0 THEN <<>> ELSE SubSeq(amArr[amCap], 1, amLen)

AmRegistry == {AmSources[i] : i \in 1..amLen}

\* Capacity after append grows a full slice (Go doubles small slices).
GrowCap(c) == IF c = 0 THEN 1 ELSE 2 * c

AllCaps == {2 ^ k : k \in 0..MaxSources}

\* The caller before its first call, with sources that have yielded nothing.
NewCaller ==
  /\ srcLen = [s \in Sources |-> 0]
  /\ srcPos = [s \in Sources |-> 0]
  /\ srcErr = [s \in Sources |-> FALSE]
  /\ setPc = "idle"
  /\ setIdx = 0
  /\ setBudget = MaxWork
  /\ setRes = [s \in Sources |-> "none"]
  /\ setLate = [s \in Sources |-> FALSE]
  /\ closeCalls = 0
  /\ consRes = "none"
  /\ consGot = [s \in Sources |-> <<>>]
  /\ consLate = FALSE
  /\ consLog = <<>>

\* NewActiveMerger(autoclose): open, no sources, cursor 0.
NewActiveMerger ==
  /\ amAutoclose \in BOOLEAN
  /\ amClosed = FALSE
  /\ amArr = [c \in AllCaps |-> <<>>]
  /\ amCap = 0
  /\ amLen = 0
  /\ amNext = 0
  /\ amCh = [s \in Sources |-> [buf |-> <<>>, closed |-> FALSE]]
  /\ amPc = [t \in AmTasks |-> "idle"]
  /\ amArg = [t \in AmTasks |-> 0]
  /\ clArr = 0
  /\ clLen = 0
  /\ clIdx = 0
  /\ clSnap = {}
  /\ srcKind = [s \in Sources |-> "none"]
  /\ srcPc = [s \in Sources |-> "off"]

\* The first slot Close's range loop has still to read, 0 outside the loop:
\* at "iter" slot clIdx + 1 is read next, inside unsetSource the one after.
ReadsFrom(pc, idx) ==
  IF pc = "iter" THEN idx + 1
  ELSE IF pc \in {"u_check", "u_lock"} THEN idx + 2
  ELSE 0

\* Memory nothing can read any more holds no information: a backing array
\* that is neither ego.sources' nor the one a range loop runs over is
\* dropped, and so is a slot beyond len(ego.sources) that no range loop has
\* still to read (from: the first slot Close's loop will read, in array clArr).
Collect(arr, cap, len, from) ==
  [c \in AllCaps |->
     IF arr[c] = <<>> \/ (c # cap /\ ~(from > 0 /\ clArr' = c))
       THEN <<>>
       ELSE [j \in 1..c |->
               IF \/ (c = cap /\ j <= len)
                  \/ (from > 0 /\ clArr' = c /\ j >= from /\ j <= clLen')
                 THEN arr[c][j]
                 ELSE 0]]

\* The registry becomes r = [arr, cap, len].
SetRegistry(r) ==
  /\ amCap' = r.cap
  /\ amLen' = r.len
  /\ amArr' = Collect(r.arr, r.cap, r.len, ReadsFrom(amPc'["close"], clIdx'))

\* The registry as it is, as [arr, cap, len].
Registry == [arr |-> amArr, cap |-> amCap, len |-> amLen]

\* `ego.sources = append(ego.sources, chp)`: in place when the backing array
\* has room, else into a new, larger array (the old one is left as it was).
AppendSource(s) ==
  IF amLen < amCap
    THEN [arr |-> [amArr EXCEPT ![amCap][amLen + 1] = s],
          cap |-> amCap,
          len |-> amLen + 1]
    ELSE [arr |-> [amArr EXCEPT ![GrowCap(amCap)] =
                     [i \in 1..GrowCap(amCap) |->
                        IF i <= amLen THEN amArr[amCap][i]
                        ELSE IF i = amLen + 1 THEN s ELSE 0]],
          cap |-> GrowCap(amCap),
          len |-> amLen + 1]

\* Index of the first registry slot holding s, 0 when there is none.
IndexOf(s) ==
  IF s \in AmRegistry
    THEN CHOOSE i \in 1..amLen :
           /\ AmSources[i] = s
           /\ \A j \in 1..(i - 1) : AmSources[j] # s
    ELSE 0

\* `ego.sources = append(ego.sources[:i], ego.sources[i+1:]...)`: the tail is
\* shifted left inside the same backing array; the old last slot keeps its value.
RemoveSource(s) ==
  IF IndexOf(s) = 0
    THEN Registry
    ELSE [arr |-> [amArr EXCEPT ![amCap] =
                     [j \in 1..amCap |->
                        IF j >= IndexOf(s) /\ j < amLen
                          THEN amArr[amCap][j + 1]
                          ELSE amArr[amCap][j]]],
          cap |-> amCap,
          len |-> amLen - 1]

\* Where a task continues when its unsetSource call returns: Consume's loop
\* goes round; Close's range loop takes the next index or ends.
AfterUnset(t) ==
  /\ amArg' = [amArg EXCEPT ![t] = 0]
  /\ IF t = "cons"
       THEN /\ amPc' = [amPc EXCEPT ![t] = "c_lock"]
            /\ UNCHANGED clIdx
       ELSE /\ clIdx' = clIdx + 1
            /\ amPc' = [amPc EXCEPT ![t] =
                          IF clIdx + 1 < clLen THEN "iter" ELSE "final"]

\* unsetSource, `if ego.Closed() { return }`.
UnsetCheck(t) ==
  /\ amPc[t] = "u_check"
  /\ IF amClosed
       THEN AfterUnset(t)
       ELSE /\ amPc' = [amPc EXCEPT ![t] = "u_lock"]
            /\ UNCHANGED <<clIdx, amArg>>
  /\ UNCHANGED <<clArr, clLen>>
  /\ SetRegistry(Registry)
  /\ UNCHANGED <<srcVars, setVars, closeCalls, consVars, srcKind, srcPc,
                 amAutoclose, amClosed, amNext, amCh, clSnap>>

\* unsetSource from Lock to the deferred Unlock, which nothing interrupts
\* (whoever else wants the registry waits for the lock): the source is
\* removed; with autoclose and an empty registry ego.Close() runs (its range
\* over the empty registry does nothing, DefaultClosable.Close sets the flag).
UnsetBody(t) ==
  /\ amPc[t] = "u_lock"
  /\ AfterUnset(t)
  /\ UNCHANGED <<clArr, clLen>>
  /\ SetRegistry(RemoveSource(amArg[t]))
  /\ amClosed' = (amClosed \/ (amAutoclose /\ amLen' = 0))
  /\ UNCHANGED <<srcVars, setVars, closeCalls, consVars, srcKind, srcPc,
                 amAutoclose, amNext, amCh, clSnap>>

\* Close, `for _, s := range ego.sources`: the range expression is evaluated
\* once, without the lock: the loop runs over that array and that length.
CloseRange ==
  /\ amPc["close"] \in {"idle", "done"}
  /\ closeCalls < MaxCloses
  /\ closeCalls' = closeCalls + 1
  /\ clArr' = amCap
  /\ clLen' = amLen
  /\ clIdx' = 0
  /\ clSnap' = AmRegistry
  /\ amPc' = [amPc EXCEPT !["close"] = IF amLen > 0 THEN "iter" ELSE "final"]
  /\ UNCHANGED <<srcVars, setVars, consVars, srcKind, srcPc, amAutoclose,
                 amClosed, regVars, amNext, amCh, amArg>>

\* Close, one iteration of the range loop: s is read from the array the loop
\* runs over, as that array is now, and unsetSource(s) is called.
CloseIter ==
  /\ amPc["close"] = "iter"
  /\ amArg' = [amArg EXCEPT !["close"] = amArr[clArr][clIdx + 1]]
  /\ amPc' = [amPc EXCEPT !["close"] = "u_check"]
  /\ UNCHANGED clVars
  /\ SetRegistry(Registry)
  /\ UNCHANGED <<srcVars, setVars, closeCalls, consVars, srcKind, srcPc,
                 amAutoclose, amClosed, amNext, amCh>>

\* Close, `ego.DefaultClosable.Close()`.
CloseFinal ==
  /\ amPc["close"] = "final"
  /\ amClosed' = TRUE
  /\ amPc' = [amPc EXCEPT !["close"] = "done"]
  /\ clArr' = 0
  /\ clLen' = 0
  /\ clIdx' = 0
  /\ UNCHANGED <<srcVars, setVars, closeCalls, consVars, srcKind, srcPc,
                 amAutoclose, regVars, amNext, amCh, amArg, clSnap>>

\* SetSource without its Closed() test.
SetSourceNeverRejects == FALSE

\* SetSource, `if ego.Closed()`: the call is refused.
SetSourceRejects == amClosed

\* The task pushing source s at the moment SetSource(s) has passed its test:
\* the forwarding goroutine for a plain producer, the source's own writer for
\* a channeled one.
Pusher(kind, n) ==
  IF kind = "wrap" THEN "check" ELSE IF n > 0 THEN "send" ELSE "close"

\* SetSource(s) up to the lock, for a producer s of either kind yielding n
\* items: the Closed() test; for a plain producer the channel is made and the
\* forwarding goroutine started.
SetCheck ==
  /\ setPc = "idle"
  /\ setIdx < MaxSources
  /\ setBudget > 0
  /\ setLate' = [setLate EXCEPT ![setIdx + 1] = amClosed]
  /\ IF SetSourceRejects
       THEN /\ setRes' = [setRes EXCEPT ![setIdx + 1] = "err"]
            /\ setIdx' = setIdx + 1
            /\ setBudget' = setBudget - 1
            /\ UNCHANGED <<setPc, srcKind, srcLen, srcPc>>
       ELSE /\ setPc' = "s_lock"
            /\ \E kind \in {"chan", "wrap"}, n \in 0..MaxItems :
                 /\ n < setBudget
                 /\ setBudget' = setBudget - 1 - n
                 /\ srcKind' = [srcKind EXCEPT ![setIdx + 1] = kind]
                 /\ srcLen' = [srcLen EXCEPT ![setIdx + 1] = n]
                 /\ srcPc' = [srcPc EXCEPT ![setIdx + 1] = Pusher(kind, n)]
            /\ UNCHANGED <<setRes, setIdx>>
  /\ UNCHANGED <<srcPos, srcErr, closeCalls, consVars, amAutoclose,
                 amClosed, regVars, amNext, amCh, amPc, amArg, clVars>>

\* SetSource from Lock to Unlock and `return nil`: the append.
SetBody ==
  /\ setPc = "s_lock"
  /\ UNCHANGED <<amPc, clVars>>
  /\ SetRegistry(AppendSource(setIdx + 1))
  /\ setRes' = [setRes EXCEPT ![setIdx + 1] = "ok"]
  /\ setIdx' = setIdx + 1
  /\ setPc' = "idle"
  /\ UNCHANGED <<srcVars, setBudget, setLate, closeCalls, consVars, srcKind,
                 srcPc, amAutoclose, amClosed, amNext, amCh, amArg>>

\* The latest Gets that read a value, with the one that read source s added.
LogRead(s) ==
  IF Len(consLog) < MaxSources * RRK
    THEN Append(consLog, s)
    ELSE Append(Tail(consLog), s)

\* The cursor wrapping one source too early.
AdvanceCursorShort == (amNext + 1) % (amLen - 1)

\* The cursor after `ego.nextToReadFrom = (ego.nextToReadFrom + 1) % len(ego.sources)`.
AdvanceCursor == (amNext + 1) % amLen

\* Consume, one iteration of its loop from Lock to Unlock, the first of a Get
\* call ("idle") or a later one: leave the loop on an empty registry; else
\* advance the cursor and try a non-blocking receive from that source: a
\* value is returned, a closed channel has its source detached, and with
\* nothing ready the loop goes round.
ConsBody ==
  /\ amPc["cons"] \in {"idle", "c_lock"}
  /\ consLate' = IF amPc["cons"] = "idle" THEN amClosed ELSE consLate
  /\ IF amLen = 0
       THEN /\ amPc' = [amPc EXCEPT !["cons"] = "c_after"]
            /\ consRes' = "none"
            /\ consLog' = <<>>
            /\ UNCHANGED <<amNext, amCh, amArg, srcPos, srcPc, consGot>>
       ELSE LET s == AmSources[AdvanceCursor + 1] IN
            /\ amNext' = AdvanceCursor
            /\ IF amCh[s].buf # <<>>
                 THEN /\ consGot' = [consGot EXCEPT ![s] = Append(@, Head(amCh[s].buf))]
                      /\ amCh' = [amCh EXCEPT ![s].buf = Tail(@)]
                      /\ consRes' = "value"
                      /\ consLog' = LogRead(s)
                      /\ amPc' = [amPc EXCEPT !["cons"] = "idle"]
                      /\ UNCHANGED <<amArg, srcPos, srcPc>>
                 ELSE IF srcPc[s] = "send" /\ ChanCapOf(s) = 0
                 THEN /\ consGot' = [consGot EXCEPT ![s] = Append(@, srcPos[s] + 1)]
                      /\ srcPos' = [srcPos EXCEPT ![s] = @ + 1]
                      /\ srcPc' = [srcPc EXCEPT ![s] = AfterSend(s, srcPos[s] + 1)]
                      /\ consRes' = "value"
                      /\ consLog' = LogRead(s)
                      /\ amPc' = [amPc EXCEPT !["cons"] = "idle"]
                      /\ UNCHANGED <<amArg, amCh>>
                 ELSE IF amCh[s].closed
                 THEN /\ amArg' = [amArg EXCEPT !["cons"] = s]
                      /\ amPc' = [amPc EXCEPT !["cons"] = "u_check"]
                      /\ consRes' = "none"
                      /\ consLog' = <<>>
                      /\ UNCHANGED <<amCh, srcPos, srcPc, consGot>>
                 ELSE /\ amPc' = [amPc EXCEPT !["cons"] = "c_lock"]
                      /\ consRes' = "none"
                      /\ consLog' = <<>>
                      /\ UNCHANGED <<amCh, amArg, srcPos, srcPc, consGot>>
  /\ UNCHANGED <<srcLen, srcErr, setVars, closeCalls, srcKind, amAutoclose,
                 amClosed, regVars, clVars>>

\* Consume after the loop: end-of-stream when the merger is closed, else the
\* "no sources attached" error with valid = true.
ConsAfter ==
  /\ amPc["cons"] = "c_after"
  /\ consRes' = IF amClosed THEN "eos" ELSE "starve"
  /\ amPc' = [amPc EXCEPT !["cons"] = "idle"]
  /\ UNCHANGED <<srcVars, setVars, closeCalls, consGot, consLate, consLog,
                 srcKind, srcPc, amAutoclose, amClosed, regVars, amNext, amCh,
                 amArg, clVars>>

\* ====================================================== channeledLazyMerger

\* ChanneledInput.Closed(): the flag ChanneledInput.Close sets.
LzIsClosed == lzClosed

\* ChanneledInput.Close() closes the channel; closing a closed channel panics.
ChannelClosePanics == lzClosed

\* NewChanneledLazyMerger(capacity, autoclose): open, no sources.
NewChanneledLazyMerger ==
  /\ lzAutoclose \in BOOLEAN
  /\ lzCapacity \in 0..MaxCapacity
  /\ lzClosed = FALSE
  /\ lzBuf = <<>>
  /\ lzSources = <<>>
  /\ lzOverflow = <<>>
  /\ lzCloses = 0
  /\ lzFault = FALSE
  /\ lzPc = [t \in LzTasks |-> IF t = CloseTask THEN "idle" ELSE "off"]
  /\ lzArg = [t \in LzTasks |-> 0]
  /\ lzDepth = [t \in LzTasks |-> 0]
  /\ lzEos = FALSE
  /\ lzInFlight = {}

LzRegistry == {lzSources[i] : i \in 1..Len(lzSources)}

\* `ego.sources = append(ego.sources[:i], ego.sources[i+1:]...)` for the first
\* i with sources[i] == s; the registry as it is when there is none.
LzRemove(seq, s) ==
  IF \E i \in 1..Len(seq) : seq[i] = s
    THEN LET i == CHOOSE k \in 1..Len(seq) :
                    seq[k] = s /\ \A j \in 1..(k - 1) : seq[j] # s
         IN  SubSeq(seq, 1, i - 1) \o SubSeq(seq, i + 1, Len(seq))
    ELSE seq

\* SetSource under the lock, `if ego.Closed()`: the call is refused.
LzSetSourceRejects == LzIsClosed

\* SetSource(s) for a producer s yielding n items, from Lock to `return`: the
\* Closed() test, the append, and `go ego.merge(s)`.
LzSetSource ==
  /\ ~lzFault
  /\ setIdx < MaxSources
  /\ setBudget > 0
  /\ setLate' = [setLate EXCEPT ![setIdx + 1] = LzIsClosed]
  /\ setIdx' = setIdx + 1
  /\ IF LzSetSourceRejects
       THEN /\ setRes' = [setRes EXCEPT ![setIdx + 1] = "err"]
            /\ setBudget' = setBudget - 1
            /\ UNCHANGED <<srcLen, lzSources, lzPc>>
       ELSE /\ setRes' = [setRes EXCEPT ![setIdx + 1] = "ok"]
            /\ \E n \in 0..MaxItems :
                 /\ n < setBudget
                 /\ setBudget' = setBudget - 1 - n
                 /\ srcLen' = [srcLen EXCEPT ![setIdx + 1] = n]
            /\ lzSources' = Append(lzSources, setIdx + 1)
            /\ lzPc' = [lzPc EXCEPT ![setIdx + 1] = "check"]
  /\ UNCHANGED <<srcPos, srcErr, setPc, closeCalls, consVars, lzAutoclose,
                 lzCapacity, lzClosed, lzBuf, lzOverflow, lzCloses, lzFault,
                 lzArg, lzDepth, lzEos, lzInFlight>>

\* merge(s), the top of its loop: `if ego.Closed() { break }`, then
\* `value, valid, err := s.Get()`: the next item (and the deferred recover is
\* registered), the end (unsetSource(s) is called), or an error (return).
MergeCheck(s) ==
  /\ ~lzFault
  /\ lzPc[s] = "check"
  /\ IF LzIsClosed
       THEN /\ lzPc' = [lzPc EXCEPT ![s] = "done"]
            /\ UNCHANGED <<srcPos, srcErr, lzArg>>
       ELSE IF srcPos[s] < srcLen[s]
       THEN /\ srcPos' = [srcPos EXCEPT ![s] = @ + 1]
            /\ lzPc' = [lzPc EXCEPT ![s] = "send"]
            /\ UNCHANGED <<srcErr, lzArg>>
       ELSE \/ /\ lzPc' = [lzPc EXCEPT ![s] = "u_check"]
               /\ lzArg' = [lzArg EXCEPT ![s] = s]
               /\ UNCHANGED <<srcPos, srcErr>>
            \/ /\ lzPc' = [lzPc EXCEPT ![s] = "done"]
               /\ srcErr' = [srcErr EXCEPT ![s] = TRUE]
               /\ UNCHANGED <<srcPos, lzArg>>
  /\ UNCHANGED <<srcLen, setVars, closeCalls, consVars, lzAutoclose,
                 lzCapacity, lzClosed, lzBuf, lzSources, lzOverflow, lzCloses,
                 lzFault, lzDepth, lzEos, lzInFlight>>

\* merge(s), `ego.Channel() <- value` into a channel with room, or into a
\* closed channel: the send panics, the deferred function recovers and
\* appends the value to the overflow buffer, and merge returns.
MergeSend(s) ==
  /\ ~lzFault
  /\ lzPc[s] = "send"
  /\ IF lzClosed
       THEN /\ lzOverflow' = Append(lzOverflow, <<s, srcPos[s]>>)
            /\ lzPc' = [lzPc EXCEPT ![s] = "done"]
            /\ UNCHANGED lzBuf
       ELSE /\ Len(lzBuf) < lzCapacity
            /\ lzBuf' = Append(lzBuf, <<s, srcPos[s]>>)
            /\ lzPc' = [lzPc EXCEPT ![s] = "check"]
            /\ UNCHANGED lzOverflow
  /\ UNCHANGED <<srcVars, setVars, closeCalls, consVars, lzAutoclose,
                 lzCapacity, lzClosed, lzSources, lzCloses, lzFault, lzArg,
                 lzDepth, lzEos, lzInFlight>>

\* Where task t continues when its unsetSource call returns: in the loop of
\* the Close call that made it, if one did; else merge made it, and returns.
LzReturn(t) ==
  /\ lzArg' = [lzArg EXCEPT ![t] = 0]
  /\ IF lzDepth[t] > 0
       THEN /\ lzDepth' = [lzDepth EXCEPT ![t] = @ - 1]
            /\ lzPc' = [lzPc EXCEPT ![t] = "cl_top"]
       ELSE /\ lzPc' = [lzPc EXCEPT ![t] = "done"]
            /\ UNCHANGED lzDepth

\* unsetSource, `if ego.Closed() { return }`.
LzUnsetCheck(t) ==
  /\ ~lzFault
  /\ lzPc[t] = "u_check"
  /\ IF LzIsClosed
       THEN LzReturn(t)
       ELSE /\ lzPc' = [lzPc EXCEPT ![t] = "u_lock"]
            /\ UNCHANGED <<lzArg, lzDepth>>
  /\ UNCHANGED <<srcVars, setVars, closeCalls, consVars, lzAutoclose,
                 lzCapacity, lzClosed, lzBuf, lzSources, lzOverflow, lzCloses,
                 lzFault, lzEos, lzInFlight>>

\* unsetSource from Lock to Unlock: the source is removed; with autoclose and
\* an empty registry ego.Close() is called once the lock is released.
LzUnsetBody(t) ==
  /\ ~lzFault
  /\ lzPc[t] = "u_lock"
  /\ lzSources' = LzRemove(lzSources, lzArg[t])
  /\ IF lzAutoclose /\ Len(lzSources') = 0
       THEN /\ lzPc' = [lzPc EXCEPT ![t] = "cl_top"]
            /\ lzArg' = [lzArg EXCEPT ![t] = 0]
            /\ UNCHANGED lzDepth
       ELSE LzReturn(t)
  /\ UNCHANGED <<srcVars, setVars, closeCalls, consVars, lzAutoclose,
                 lzCapacity, lzClosed, lzBuf, lzOverflow, lzCloses, lzFault,
                 lzEos, lzInFlight>>

\* The values that merge tasks have pulled and are writing to the channel.
InFlight == {<<s, srcPos[s]>> : s \in {x \in Sources : lzPc[x] = "send"}}

\* The caller's task calls Close.
LzCloseCall ==
  /\ ~lzFault
  /\ lzPc[CloseTask] \in {"idle", "done"}
  /\ closeCalls < MaxCloses
  /\ closeCalls' = closeCalls + 1
  /\ lzPc' = [lzPc EXCEPT ![CloseTask] = "cl_top"]
  /\ lzInFlight' = IF closeCalls = 0 THEN InFlight ELSE lzInFlight
  /\ UNCHANGED <<srcVars, setVars, consVars, lzAutoclose, lzCapacity,
                 lzClosed, lzBuf, lzSources, lzOverflow, lzCloses, lzFault,
                 lzArg, lzDepth, lzEos>>

\* Close, its loop from Lock to Unlock: with a source attached the first one
\* is taken and unsetSource is called on it; with none the loop ends.
LzCloseLoop(t) ==
  /\ ~lzFault
  /\ lzPc[t] = "cl_top"
  /\ IF Len(lzSources) > 0
       THEN /\ lzArg' = [lzArg EXCEPT ![t] = lzSources[1]]
            /\ lzDepth' = [lzDepth EXCEPT ![t] = @ + 1]
            /\ lzPc' = [lzPc EXCEPT ![t] = "u_check"]
       ELSE /\ lzPc' = [lzPc EXCEPT ![t] = "cl_chan"]
            /\ UNCHANGED <<lzArg, lzDepth>>
  /\ UNCHANGED <<srcVars, setVars, closeCalls, consVars, lzAutoclose,
                 lzCapacity, lzClosed, lzBuf, lzSources, lzOverflow, lzCloses,
                 lzFault, lzEos, lzInFlight>>

\* The deferred functions a panic in task t runs: merge(s) has registered one
\* per item it pulled, and the last registered recovers.
Recovers(t) == t \in Sources /\ srcPos[t] > 0

\* Close, `ego.ChanneledInput.Close()`: the channel is closed. A panic is
\* recovered by merge's deferred function, which appends the value of its
\* iteration to the overflow buffer, and ends the program elsewhere.
LzCloseChannel(t) ==
  /\ ~lzFault
  /\ lzPc[t] = "cl_chan"
  /\ lzCloses' = lzCloses + 1
  /\ IF ChannelClosePanics
       THEN IF Recovers(t)
              THEN /\ lzOverflow' = Append(lzOverflow, <<t, srcPos[t]>>)
                   /\ lzPc' = [lzPc EXCEPT ![t] = "done"]
                   /\ lzDepth' = [lzDepth EXCEPT ![t] = 0]
                   /\ UNCHANGED <<lzClosed, lzFault, lzArg>>
              ELSE /\ lzFault' = TRUE
                   /\ UNCHANGED <<lzClosed, lzOverflow, lzPc, lzArg, lzDepth>>
       ELSE /\ lzClosed' = TRUE
            /\ LzReturn(t)
            /\ UNCHANGED <<lzOverflow, lzFault>>
  /\ UNCHANGED <<srcVars, setVars, closeCalls, consVars, lzAutoclose,
                 lzCapacity, lzBuf, lzSources, lzEos, lzInFlight>>

\* The item a receive from the channel yields: the head of the buffer, or
\* what a task blocked in its send hands over; <<>> when nothing is ready.
Receivable ==
  IF lzBuf # <<>> THEN {Head(lzBuf)}
  ELSE IF lzClosed THEN {}
  ELSE {<<s, srcPos[s]>> : s \in {x \in Sources : lzPc[x] = "send"}}

\* Consume: `value, valid = <-ego.Channel()`; on a closed and drained channel
\* the head of the overflow buffer, if it has one, else end-of-stream.
LzConsume ==
  /\ ~lzFault
  /\ IF Receivable # {}
       THEN \E v \in Receivable :
              /\ consGot' = [consGot EXCEPT ![v[1]] = Append(@, v[2])]
              /\ consRes' = "value"
              /\ IF lzBuf # <<>>
                   THEN lzBuf' = Tail(lzBuf) /\ UNCHANGED lzPc
                   ELSE lzPc' = [lzPc EXCEPT ![v[1]] = "check"] /\ UNCHANGED lzBuf
              /\ UNCHANGED <<lzOverflow, lzEos, lzInFlight>>
       ELSE /\ lzClosed
            /\ UNCHANGED <<lzBuf, lzPc>>
            /\ IF Len(lzOverflow) > 0
                 THEN /\ consGot' = [consGot EXCEPT ![Head(lzOverflow)[1]] =
                                       Append(@, Head(lzOverflow)[2])]
                      /\ lzOverflow' = Tail(lzOverflow)
                      /\ consRes' = "value"
                      /\ UNCHANGED lzEos
                 ELSE /\ consRes' = "eos"
                      /\ lzEos' = TRUE
                      /\ UNCHANGED <<consGot, lzOverflow>>
  /\ UNCHANGED <<srcVars, setVars, closeCalls, consLate, consLog,
                 lzAutoclose, lzCapacity, lzClosed, lzSources, lzCloses,
                 lzFault, lzArg, lzDepth, lzInFlight>>
\* ========================================================== specifications

\* A run is of one component; the variables of the others hold nothing.
CallerUnused ==
  /\ srcLen = 0 /\ srcPos = 0 /\ srcErr = 0
  /\ setPc = 0 /\ setIdx = 0 /\ setBudget = 0 /\ setRes = 0 /\ setLate = 0
  /\ closeCalls = 0 /\ consRes = 0 /\ consGot = 0 /\ consLate = 0
  /\ consLog = 0

AmUnused ==
  /\ srcKind = 0 /\ srcPc = 0
  /\ amAutoclose = 0 /\ amClosed = 0 /\ amArr = 0 /\ amCap = 0 /\ amLen = 0
  /\ amNext = 0 /\ amCh = 0 /\ amPc = 0 /\ amArg = 0
  /\ clArr = 0 /\ clLen = 0 /\ clIdx = 0 /\ clSnap = 0

LzUnused ==
  /\ lzAutoclose = 0 /\ lzCapacity = 0 /\ lzClosed = 0 /\ lzBuf = 0
  /\ lzSources = 0 /\ lzOverflow = 0 /\ lzCloses = 0 /\ lzFault = 0
  /\ lzPc = 0 /\ lzArg = 0 /\ lzDepth = 0 /\ lzEos = 0
  /\ lzInFlight = 0

MuxUnused ==
  /\ muxInput = 0 /\ muxEnd = 0 /\ muxCapacity = 0 /\ muxSource = 0
  /\ muxSetErr = 0 /\ muxPos = 0 /\ muxPc = 0 /\ muxVal = 0 /\ muxIdx = 0
  /\ outputs = 0 /\ rdGot = 0 /\ rdEos = 0

\* What a step of one component leaves as it is.
notMux == <<component, callerVars, amVars, lzVars>>
notAm == <<component, muxVars, lzVars>>
notLz == <<component, muxVars, amVars>>

MuxInit ==
  /\ component = "mux"
  /\ NewMultiplexer /\ CallerUnused /\ AmUnused /\ LzUnused

MuxNext ==
  \/ component = "mux" /\ MuxSetSource /\ UNCHANGED notMux
  \/ component = "mux" /\ PipeConsume /\ UNCHANGED notMux
  \/ component = "mux" /\ PipeWriteBuffered /\ UNCHANGED notMux
  \/ component = "mux" /\ PipeWriteHandoff /\ UNCHANGED notMux
  \/ component = "mux" /\ PipeClose /\ UNCHANGED notMux
  \/ component = "mux" /\ \E i \in Branches : ReaderGet(i) /\ UNCHANGED notMux

SpecMux == MuxInit /\ [][MuxNext]_vars

\* The broadcast task is a goroutine, and so is every branch's reader: each
\* runs when it can. The call of SetSource is the caller's to make or not.
MuxTask ==
  /\ PipeConsume \/ PipeWriteBuffered \/ PipeWriteHandoff \/ PipeClose
  /\ UNCHANGED notMux

MuxReader(i) == ReaderGet(i) /\ UNCHANGED notMux

FairMux ==
  SpecMux /\ WF_vars(MuxTask) /\ \A i \in Branches : WF_vars(MuxReader(i))

AmInit ==
  /\ component = "active"
  /\ NewCaller /\ NewActiveMerger /\ MuxUnused /\ LzUnused

AmNext ==
  \/ component = "active" /\ \E s \in Sources : WrapCheck(s) /\ UNCHANGED notAm
  \/ component = "active" /\ \E s \in Sources : SrcClose(s) /\ UNCHANGED notAm
  \/ component = "active" /\ \E s \in Sources : SrcSend(s) /\ UNCHANGED notAm
  \/ component = "active" /\ \E t \in AmTasks : UnsetCheck(t) /\ UNCHANGED notAm
  \/ component = "active" /\ \E t \in AmTasks : UnsetBody(t) /\ UNCHANGED notAm
  \/ component = "active" /\ CloseRange /\ UNCHANGED notAm
  \/ component = "active" /\ CloseIter /\ UNCHANGED notAm
  \/ component = "active" /\ CloseFinal /\ UNCHANGED notAm
  \/ component = "active" /\ SetCheck /\ UNCHANGED notAm
  \/ component = "active" /\ SetBody /\ UNCHANGED notAm
  \/ component = "active" /\ ConsBody /\ UNCHANGED notAm
  \/ component = "active" /\ ConsAfter /\ UNCHANGED notAm

SpecActive == AmInit /\ [][AmNext]_vars

LzInit ==
  /\ component = "lazy"
  /\ NewCaller /\ NewChanneledLazyMerger /\ MuxUnused /\ AmUnused

LzNext ==
  \/ component = "lazy" /\ LzSetSource /\ UNCHANGED notLz
  \/ component = "lazy" /\ \E s \in Sources : MergeCheck(s) /\ UNCHANGED notLz
  \/ component = "lazy" /\ \E s \in Sources : MergeSend(s) /\ UNCHANGED notLz
  \/ component = "lazy" /\ \E t \in LzTasks : LzUnsetCheck(t) /\ UNCHANGED notLz
  \/ component = "lazy" /\ \E t \in LzTasks : LzUnsetBody(t) /\ UNCHANGED notLz
  \/ component = "lazy" /\ LzCloseCall /\ UNCHANGED notLz
  \/ component = "lazy" /\ \E t \in LzTasks : LzCloseLoop(t) /\ UNCHANGED notLz
  \/ component = "lazy" /\ \E t \in LzTasks : LzCloseChannel(t) /\ UNCHANGED notLz
  \/ component = "lazy" /\ LzConsume /\ UNCHANGED notLz

SpecLazy == LzInit /\ [][LzNext]_vars

\* An ActiveMerger in steady use: MaxSources channeled sources are attached,
\* each has its first of RRK + 1 items in its channel and its writer at the
\* next, and nothing is attached, detached or closed any more.
RoundRobinCap ==
  CHOOSE c \in AllCaps :
    c >= MaxSources /\ \A e \in AllCaps : e >= MaxSources => c <= e

RoundRobinInit ==
  /\ component = "active"
  /\ MuxUnused /\ LzUnused
  /\ srcLen = [s \in Sources |-> RRK + 1]
  /\ srcPos = [s \in Sources |-> 1]
  /\ srcErr = [s \in Sources |-> FALSE]
  /\ setPc = "idle"
  /\ setIdx = MaxSources
  /\ setBudget = 0
  /\ setRes = [s \in Sources |-> "ok"]
  /\ setLate = [s \in Sources |-> FALSE]
  /\ closeCalls = 0
  /\ consRes = "none"
  /\ consGot = [s \in Sources |-> <<>>]
  /\ consLate = FALSE
  /\ consLog = <<>>
  /\ srcKind = [s \in Sources |-> "chan"]
  /\ srcPc = [s \in Sources |-> "send"]
  /\ amAutoclose \in BOOLEAN
  /\ amClosed = FALSE
  /\ amArr = [c \in AllCaps |->
               IF c = RoundRobinCap
                 THEN [j \in 1..c |-> IF j <= MaxSources THEN j ELSE 0]
                 ELSE <<>>]
  /\ amCap = RoundRobinCap
  /\ amLen = MaxSources
  /\ amNext \in 0..(MaxSources - 1)
  /\ amCh = [s \in Sources |-> [buf |-> <<1>>, closed |-> FALSE]]
  /\ amPc = [t \in AmTasks |-> "idle"]
  /\ amArg = [t \in AmTasks |-> 0]
  /\ clArr = 0
  /\ clLen = 0
  /\ clIdx = 0
  /\ clSnap = {}

RoundRobinNext ==
  \/ component = "active" /\ \E s \in Sources : SrcSend(s) /\ UNCHANGED notAm
  \/ component = "active" /\ ConsBody /\ UNCHANGED notAm

SpecRoundRobin == RoundRobinInit /\ [][RoundRobinNext]_vars

\* Either merger.
MergerInit == AmInit \/ LzInit

MergerNext == AmNext \/ LzNext

SpecMerger == MergerInit /\ [][MergerNext]_vars

\* Closed(), `len(ego.sources) == 0` and ego.autoclose of the merger that runs.
MergerClosed == IF component = "active" THEN amClosed ELSE lzClosed
MergerEmpty == IF component = "active" THEN amLen = 0 ELSE lzSources = <<>>
MergerAutoclose == IF component = "active" THEN amAutoclose ELSE lzAutoclose

\* ================================================================ properties

\* C1: every branch's reader receives a prefix of the upstream sequence, in
\* order, and has received exactly the upstream sequence once it has read
\* end-of-stream: nothing is lost, duplicated or reordered on any branch.
MuxBroadcastsAll ==
  component = "mux" =>
    \A i \in Branches :
      /\ IsPrefix(rdGot[i], muxInput)
      /\ rdEos[i] => rdGot[i] = muxInput

\* C1, its case: an upstream of MaxLen values, two of them different, has
\* been read to end-of-stream on every branch.
MuxAllBranchesDrained ==
  /\ component = "mux"
  /\ Len(muxInput) = MaxLen
  /\ muxInput[1] # muxInput[MaxLen]
  /\ muxEnd = "eos"
  /\ \A i \in Branches : rdEos[i] /\ Len(rdGot[i]) = MaxLen

\* Every output is closed and every branch's reader has read end-of-stream,
\* after all the values the upstream yielded before it ended.
MuxAllEnded ==
  /\ muxPc = "done"
  /\ \A i \in Branches : outputs[i].closed /\ rdEos[i] /\ rdGot[i] = muxInput

\* C4: once the upstream has reported end-of-stream or an error, with every
\* output being read, the broadcast task stops, every output is closed and
\* every branch's reader reads end-of-stream (an error is seen as that too).
MuxShutsDown == (component = "mux" /\ muxPc = "close") ~> MuxAllEnded

\* C4, its case: the upstream ended in an error after MaxLen values, and
\* every branch has read end-of-stream.
MuxEndedOnError ==
  /\ component = "mux"
  /\ muxEnd = "err"
  /\ Len(muxInput) = MaxLen
  /\ MuxAllEnded

\* C7: when Close has returned, every source that was attached when it was
\* called is detached (whatever their number), and the merger is closed;
\* stated of the first Close call on an ActiveMerger without autoclose, which
\* finds the merger open.
AmCloseDetachesAll ==
  (component = "active" /\ ~amAutoclose /\ closeCalls = 1
     /\ amPc["close"] = "done") =>
    /\ clSnap \cap AmRegistry = {}
    /\ amClosed

\* C8: a Get of an ActiveMerger that was called with the merger closed
\* returns end-of-stream: not a value, and not the starvation error.
AmGetAfterCloseIsEos ==
  (component = "active" /\ consLate /\ amPc["cons"] = "idle"
     /\ consRes # "none") =>
    consRes = "eos"

\* C3: for an ActiveMerger with autoclose, never closed explicitly, whose
\* sources yield no error: the Gets return each source's items in that
\* source's order, none twice, and when a Get returns end-of-stream every
\* item of every source whose SetSource returned nil has been returned.
AmDeliversAll ==
  (component = "active" /\ amAutoclose /\ closeCalls = 0
     /\ \A s \in Sources : ~srcErr[s]) =>
    /\ \A s \in Sources : IsPrefix(consGot[s], ItemsOf(srcLen[s]))
    /\ consRes = "eos" =>
         \A s \in Sources : setRes[s] = "ok" => consGot[s] = ItemsOf(srcLen[s])

\* C2: for a LazyMerger with autoclose, never closed explicitly, whose
\* sources yield no error: the Gets return each source's items in that
\* source's order, none twice, and when a Get returns end-of-stream every
\* item of every source whose SetSource returned nil has been returned.
LzDeliversAll ==
  (component = "lazy" /\ lzAutoclose /\ closeCalls = 0
     /\ \A s \in Sources : ~srcErr[s]) =>
    /\ \A s \in Sources : IsPrefix(consGot[s], ItemsOf(srcLen[s]))
    /\ consRes = "eos" =>
         \A s \in Sources : setRes[s] = "ok" => consGot[s] = ItemsOf(srcLen[s])

\* C5: a merger that is never closed explicitly: with autoclose it becomes
\* closed in a step that leaves the registry empty, and its channel is
\* closed once; without autoclose it stays open, and an ActiveMerger's Get
\* does not return end-of-stream.
AutocloseOnlyWhenEmpty ==
  [][closeCalls' = 0 =>
       IF MergerAutoclose
         THEN /\ (~MergerClosed /\ MergerClosed') => MergerEmpty'
              /\ component = "lazy" => lzCloses' <= 1
         ELSE /\ ~MergerClosed'
              /\ consRes' # "eos"]_vars

\* C6: two Close calls on a merger do not fault, and when the second has
\* returned the merger is closed.
CloseTwiceIsSafe ==
  closeCalls = 2 =>
    IF component = "active"
      THEN amPc["close"] = "done" => amClosed
      ELSE /\ ~lzFault
           /\ lzPc[CloseTask] = "done" => lzClosed

\* C9: a source whose SetSource call was made with the merger closed got
\* the "already closed" error, is not in the registry, and no task forwards it.
LateSetSourceRejected ==
  \A s \in Sources :
    setLate[s] =>
      /\ setRes[s] = "err"
      /\ IF component = "active"
           THEN s \notin AmRegistry /\ srcPc[s] = "off"
           ELSE s \notin LzRegistry /\ lzPc[s] = "off"

\* C9, its case: an ActiveMerger that was closed with a source attached has
\* refused a later SetSource call.
LateSetSourceSeen ==
  /\ component = "active"
  /\ 1 \in AmRegistry
  /\ setLate[2]
  /\ setRes[2] = "err"

\* C10: once a Get of a LazyMerger has returned end-of-stream, nothing is
\* appended to the overflow buffer and no Get returns a value.
LzEosIsFinal ==
  [][lzEos => (Len(lzOverflow') <= Len(lzOverflow) /\ consGot' = consGot)]_vars

\* C11: a LazyMerger with one source yielding two items, on which Close was
\* called while the task was writing the second: the Gets return the first
\* item, then the second, and nothing else, and when a Get returns
\* end-of-stream both have been returned.
LzOverflowServedBeforeEos ==
  (component = "lazy" /\ setIdx = 1 /\ srcLen[1] = 2
     /\ lzInFlight = {<<1, 2>>}) =>
    /\ IsPrefix(consGot[1], ItemsOf(2))
    /\ consRes = "eos" => consGot[1] = ItemsOf(2)

\* The number of times source s occurs in the log of the latest reads.
ReadsOf(s) == Cardinality({i \in 1..Len(consLog) : consLog[i] = s})

\* C12: in every window of MaxSources * RRK consecutive Gets of an
\* ActiveMerger that each found a value at the source polled, with no source
\* attached or detached, every source is read at least RRK - 1 and at most
\* RRK + 1 times.
RoundRobinIsFair ==
  (component = "active" /\ Len(consLog) = MaxSources * RRK) =>
    \A s \in Sources : ReadsOf(s) >= RRK - 1 /\ ReadsOf(s) <= RRK + 1

\* C12, its case: a full window of reads has been returned.
RoundRobinWindowRead ==
  /\ component = "active"
  /\ Len(consLog) = MaxSources * RRK
  /\ consRes = "value"
  /\ \A s \in Sources : ReadsOf(s) = RRK

\* C13: whenever the registry of an ActiveMerger is not empty, the cursor
\* nextToReadFrom is an index of it: at least 0 and less than its length.
CursorInRange ==
  (component = "active" /\ amLen > 0) => (amNext >= 0 /\ amNext < amLen)

\* C14: the registry is read and iterated only under the registry lock, so
\* no task changes it while another is in the middle of reading it: while
\* Close stands inside its range loop, between two reads of the slice it
\* iterates, no step of another task changes ego.sources.
RegistryStableWhileIterated ==
  [][(component = "active" /\ amPc["close"] = "iter"
        /\ amPc'["close"] = "iter" /\ clIdx' = clIdx)
       => (amCap' = amCap /\ amLen' = amLen /\ AmSources' = AmSources)]_vars

\* How many times v occurs in seq.
CountIn(seq, v) == Cardinality({i \in 1..Len(seq) : seq[i] = v})

\* Where item k of source s is: held by its merge task at the send, in the
\* channel, in the overflow buffer, or with the consumer.
Copies(s, k) ==
  CountIn(lzBuf, <<s, k>>) + CountIn(lzOverflow, <<s, k>>)
    + CountIn(consGot[s], k)
    + (IF lzPc[s] = "send" /\ srcPos[s] = k THEN 1 ELSE 0)

\* C15: a value a merge task has pulled is never dropped and is handed on
\* once: it is written to the channel or, when that write hits the closed
\* channel, appended to the overflow buffer exactly once; so every pulled
\* value exists exactly once among the task's hands, the channel, the
\* overflow buffer and the consumer.
LzPulledKeptOnce ==
  component = "lazy" =>
    \A s \in Sources : \A k \in 1..MaxItems :
      k <= srcPos[s] => Copies(s, k) = 1

\* C16: the close of the lazy merger's channel is performed at most once,
\* here in the executions with at most one explicit call of Close: an
\* explicit Close of an autoclose merger with sources attached, or one that
\* coincides with the autoclose of the last source.
LzChannelClosedOnce ==
  (component = "lazy" /\ closeCalls <= 1) => lzCloses <= 1

\* C17: Close's detach loop never spins: no unsetSource call that Close's
\* loop made returns, refused because the merger is closed, into a loop
\* whose registry still holds the source it was to remove.
LzCloseLoopNeverRefused ==
  [][~(/\ component = "lazy"
       /\ \E t \in LzTasks :
            /\ lzPc[t] = "u_check" /\ lzDepth[t] > 0 /\ LzIsClosed
            /\ lzPc'[t] = "cl_top"
            /\ lzArg[t] \in LzRegistry')]_vars

\* The number of values pipeData has written to output i: those its reader
\* has taken and those still in its channel.
Written(i) == Len(rdGot[i]) + Len(outputs[i].buf)

\* C18: pipeData writes each value to the outputs in output order and pulls
\* the next one only when all outputs have it: an earlier output is never
\* behind a later one and never more than one value ahead, and every output
\* before the one being written has all the values pulled, every other one
\* all but the current.
MuxWritesInOrder ==
  component = "mux" =>
    /\ \A i \in Branches : \A j \in Branches :
         i < j => Written(i) - Written(j) \in {0, 1}
    /\ \A i \in Branches :
         Written(i) = IF muxPc = "write" /\ i >= muxIdx
                        THEN muxPos - 1
                        ELSE muxPos

\* C18, its case: the last upstream value is written to the first output and
\* pipeData is stalled on the last output, which is full and unread.
MuxStalledOnFullOutput ==
  /\ component = "mux"
  /\ muxPc = "write" /\ muxIdx = MuxBranches /\ muxPos = MaxLen
  /\ muxCapacity > 0
  /\ Len(outputs[MuxBranches].buf) = muxCapacity
  /\ rdGot[MuxBranches] = <<>>
  /\ Written(1) - Written(MuxBranches) = 1

\* The sources in the merger's registry whose SetSource returned nil.
AcceptedInRegistry ==
  {s \in Sources :
     /\ setRes[s] = "ok"
     /\ s \in (IF component = "active" THEN AmRegistry ELSE LzRegistry)}

\* C19: no source is added to a closed merger: whenever the merger is
\* closed its registry holds no source whose SetSource returned nil.
ClosedRegistryHoldsNoAccepted ==
  (component \in {"active", "lazy"} /\ MergerClosed) => AcceptedInRegistry = {}

\* The sources whose SetSource returned nil.
Accepted == {s \in Sources : setRes[s] = "ok"}

\* C20: on an autoclose merger a consumer that keeps calling Get receives
\* end-of-stream once every attached source has terminated, by its end or by
\* an error. Only a merge task's autoclose closes the channel when Close is
\* never called, so: when every merge task has returned, the channel is
\* closed (else Get blocks on it for ever).
LzAllEndedIsClosed ==
  (/\ component = "lazy" /\ lzAutoclose /\ closeCalls = 0
   /\ Accepted # {}
   /\ \A s \in Accepted : lzPc[s] = "done")
    => lzClosed
=============================================================================
